---- MODULE Spec2Model ----
(***************************************************************************)
(* Job execution engine of the 95th-percentile service (src/server):       *)
(* the job_runs / tasks tables, the scheduler queue, the process-wide      *)
(* semaphore, the _execute_job coroutine and the compute_and_export work   *)
(* it offloads, with the API handlers and the retention sweep around them. *)
(***************************************************************************)
EXTENDS Integers, Sequences, FiniteSets, TLC

\* ---------------------------------------------------------------- bounds
\* Number of job ids (uuid4 values) ever issued in a run of the model.
MaxJobs == 2
\* Number of task rows that may exist at once.
MaxTasks == 1
\* settings.CONCURRENCY_LIMIT (config.py:31, default 3), scaled down.
CONCURRENCY_LIMIT == 1
\* settings.RETENTION_DAYS (config.py:30, default 30), scaled down.
RETENTION_DAYS == 1
\* Last day the model's clock reaches.
MaxDay == 2

\* ---------------------------------------------------------------- values
\* Optional values (Python None / a value): the empty or one-element tuple.
None == << >>
Some(v) == << v >>
IsNone(x) == x = << >>
Val(x) == x[1]

JobIds == 1..MaxJobs
TaskIds == 1..MaxTasks

\* 23:59:59 as a second of the day.
EndOfDay == 86399

\* An instant: a day number (day 0 is a Monday) and a second of that day.
Instant(d, s) == [day |-> d, sec |-> s]

\* ------------------------------------------------------- window resolver
\* The outcome of a call that may raise.
Ok(v) == [ok |-> TRUE, val |-> v]
Raise(e) == [ok |-> FALSE, err |-> e]

\* Fault variant of last_week: the seven days before now's day.
last_week_rolling(now) ==
    [start_time |-> Instant(now.day - 7, 0),
     end_time |-> Instant(now.day - 1, EndOfDay),
     label |-> <<"week", now.day - 7, now.day - 1>>]

\* Selector "last_week": the Monday-to-Sunday week before the one holding now.
last_week(now) ==
    LET weekday == now.day % 7
        this_monday == now.day - weekday
        last_monday == this_monday - 7
        last_sunday == this_monday - 1
    IN  [start_time |-> Instant(last_monday, 0),
         end_time |-> Instant(last_sunday, EndOfDay),
         label |-> <<"week", last_monday, last_sunday>>]

\* Fault variant of last_n_days: the n days that end yesterday.
last_n_days_yesterday(params, now) ==
    LET n == IF IsNone(params.n) THEN 7 ELSE Val(params.n)
    IN  [start_time |-> Instant(now.day - n, 0),
         end_time |-> Instant(now.day - 1, EndOfDay),
         label |-> <<"last", n, now.day - 1>>]

\* Selector "last_n_days": n defaults to 7; no lower bound on n is checked.
last_n_days(params, now) ==
    LET n == IF IsNone(params.n) THEN 7 ELSE Val(params.n)
    IN  [start_time |-> Instant(now.day - (n - 1), 0),
         end_time |-> Instant(now.day, EndOfDay),
         label |-> <<"last", n, now.day>>]

\* Fault variant of resolve_time_window: a custom window with a missing
\* instant, or an unknown selector, resolves to the epoch instead of raising.
resolve_time_window_lenient(selector, params, now) ==
    IF selector = "last_week" THEN Ok(last_week(now))
    ELSE IF selector = "last_n_days" THEN Ok(last_n_days(params, now))
    ELSE LET s == IF IsNone(params.start_time) THEN Instant(0, 0) ELSE Val(params.start_time)
             e == IF IsNone(params.end_time) THEN Instant(0, 0) ELSE Val(params.end_time)
         IN  Ok([start_time |-> s, end_time |-> e, label |-> <<"custom", s.day, e.day>>])

\* resolve_time_window(selector, params, tz_name), with "now" made explicit.
\* Times are wall-clock instants of the one time zone the call is given.
resolve_time_window(selector, params, now) ==
    IF selector = "last_week" THEN Ok(last_week(now))
    ELSE IF selector = "last_n_days" THEN Ok(last_n_days(params, now))
    ELSE IF selector = "custom" THEN
        IF IsNone(params.start_time) \/ IsNone(params.end_time)
        THEN Raise("ValueError: custom window requires start_time and end_time")
        ELSE LET s == Val(params.start_time)
                 e == Val(params.end_time)
             IN  Ok([start_time |-> s, end_time |-> e,
                     label |-> <<"custom", s.day, e.day>>])
    ELSE Raise("ValueError: Unsupported window selector")

\* --------------------------------------------------- compute_and_export
\* Keyword parameters the vendored script functions declare (server/ext).
KW_process_schools == {}
KW_process_schools_batched == {"batch_size"}
KW_aggregate_all_and_compute == {}
KW_calculate_95th_percentile == {}

\* A Python call with keyword arguments kw succeeds only if the callee
\* declares each of them; otherwise it raises TypeError.
Accepts(declared, kw) == kw \subseteq declared

\* The progress of one compute_and_export call: how it ended so far, the
\* artifact list it has built, and the files it has put in the job directory.
Running(arts, files) == [kind |-> "running", err |-> "", artifacts |-> arts, written |-> files]
\* A failed write: safe_artifact_path has already made the job directory.
WriteError(p) == [p EXCEPT !.kind = "raise", !.err = "OSError: cannot write artifact"]
Raised(e, p) == [p EXCEPT !.kind = "raise", !.err = e]
Exited(p) == [p EXCEPT !.kind = "exit", !.err = "SystemExit: 1"]
Returned(p) == [p EXCEPT !.kind = "return"]

UnitBaseError == "TypeError: got an unexpected keyword argument 'unit_base'"

\* _build_base_filename: the rendered template when one is given, else
\* province-cp-direction-window_label.
_build_base_filename(params, window_label, output_filename_template) ==
    IF output_filename_template # ""
    THEN <<"template", output_filename_template, params.province, params.cp,
           params.direction, window_label>>
    ELSE <<"default", params.province, params.cp, params.direction, window_label>>

File(base, suffix) == [base |-> base, suffix |-> suffix]

\* get_speed_data for one entity: its rows, or nothing when the query is
\* rejected (the exception is logged and [] returned) or no sample exists.
get_speed_data(e, school) == e.query_ok /\ school \in e.sampled

\* get_schools_by_province_and_cp: the matching entities, or [] when the
\* query is rejected.
get_schools_by_province_and_cp(e) == IF e.lookup_ok THEN e.schools ELSE {}

\* process_schools / process_schools_batched: one result row per entity
\* that has data (entities without rows are skipped).
process_schools(e, schools) == {s \in schools : get_speed_data(e, s)}
process_schools_batched(e, schools) == {s \in schools : get_speed_data(e, s)}

\* aggregate_speed_data_for_pairs_db, then the per-entity fallback
\* aggregate_speed_data_for_schools: whether the summed series has rows.
aggregate_speed_data(e, schools) == \E s \in schools : get_speed_data(e, s)

\* aggregate_all_and_compute: one aggregate row when the series has rows.
aggregate_all_and_compute(e, schools) ==
    IF aggregate_speed_data(e, schools) THEN {"all"} ELSE {}

\* _export_df: an empty frame gives a placeholder CSV whatever the formats;
\* otherwise one file per requested format. A write error raises.
_export_df(p, e, df, base, tag, export_formats) ==
    IF p.kind # "running" THEN p
    ELSE IF ~e.export_ok THEN WriteError(p)
    ELSE LET names == IF df = {} THEN << File(base, <<tag, "csv">>) >>
                      ELSE (IF "csv" \in export_formats THEN << File(base, <<tag, "csv">>) >> ELSE << >>)
                           \o (IF "xlsx" \in export_formats THEN << File(base, <<tag, "xlsx">>) >> ELSE << >>)
         IN  Running(p.artifacts \o names, p.written \cup {names[i] : i \in 1..Len(names)})

\* Lines 142-279: the excluded / remaining split.
ComputeSplit(params, e, schools, base, fmts) ==
    LET excluded_schools == schools \cap params.exclude_school
        remaining_schools == schools \ params.exclude_school
        daily == params.settlement_mode = "daily_95_avg"
        p0 == Running(<< >>, {})
        \* 1) excluded subset, per entity
        p1 == IF excluded_schools = {} THEN p0
              ELSE IF ~Accepts(KW_process_schools, {"unit_base"}) THEN Raised(UnitBaseError, p0)
              ELSE _export_df(p0, e, process_schools(e, excluded_schools), base, "excluded", fmts)
        \* 2) remaining subset, aggregated
        names_txt == File(base, <<"remaining_names", "txt">>)
        p2 == IF p1.kind # "running" \/ remaining_schools = {} THEN p1
              ELSE IF ~e.export_ok THEN WriteError(p1)
              ELSE Running(p1.artifacts \o << names_txt >>, p1.written \cup {names_txt})
        p3 == IF p2.kind # "running" \/ remaining_schools = {} THEN p2
              ELSE IF ~aggregate_speed_data(e, remaining_schools) THEN p2
              ELSE IF ~daily /\ ~Accepts(KW_calculate_95th_percentile, {"unit_base"})
                   THEN Raised(UnitBaseError, p2)
              ELSE _export_df(p2, e, {"remaining"}, base, "remaining", fmts)
    IN  IF p3.kind = "running" THEN Returned(p3) ELSE p3

\* Lines 282-317: aggregate-all.
ComputeAggregateAll(params, e, schools, base, fmts) ==
    LET p0 == Running(<< >>, {})
        daily == params.settlement_mode = "daily_95_avg"
        rows == aggregate_all_and_compute(e, schools)
        \* daily_95_avg without export_daily always yields one averaged row
        df == IF daily /\ ~params.export_daily THEN {"all"} ELSE rows
        p1 == IF ~Accepts(KW_aggregate_all_and_compute, {"unit_base"}) THEN Raised(UnitBaseError, p0)
              ELSE _export_df(p0, e, df, base, "", fmts)
    IN  IF p1.kind = "running" THEN Returned(p1) ELSE p1

\* Lines 318-363: per entity, batched, with the per-entity fallback.
ComputePerEntity(params, e, schools, base, fmts) ==
    LET p0 == Running(<< >>, {})
        batched == process_schools_batched(e, schools)
        rows == IF batched = {} THEN process_schools(e, schools) ELSE batched
        p1 == IF ~Accepts(KW_process_schools_batched, {"batch_size", "unit_base"})
              THEN Raised(UnitBaseError, p0)
              ELSE IF batched = {} /\ ~Accepts(KW_process_schools, {"unit_base"})
              THEN Raised(UnitBaseError, p0)
              ELSE _export_df(p0, e, rows, base, "", fmts)
    IN  IF p1.kind = "running" THEN Returned(p1) ELSE p1

\* compute_and_export(job_id, resolved_window, params, export_formats,
\* output_filename_template) run against the environment e.
compute_and_export(resolved_window, params, export_formats, output_filename_template, e) ==
    LET fmts == IF export_formats = {} THEN {"csv"} ELSE export_formats
        base == _build_base_filename(params, resolved_window.label, output_filename_template)
        p0 == Running(<< >>, {})
        schools == get_schools_by_province_and_cp(e)
        no_data == File(base, <<"no_data", "txt">>)
    IN  IF params.province = "" \/ params.cp = ""
        THEN Raised("ValueError: province and cp are required in params", p0)
        ELSE IF ~e.config_ok THEN Exited(p0)      \* load_db_config: sys.exit(1)
        ELSE IF ~e.db_up THEN Exited(p0)          \* connect_to_db: sys.exit(1)
        ELSE IF schools = {} THEN
            IF ~e.export_ok THEN WriteError(p0)
            ELSE Returned(Running(<< no_data >>, {no_data}))
        ELSE IF params.exclude_school # {} THEN ComputeSplit(params, e, schools, base, fmts)
        ELSE IF params.aggregate_all THEN ComputeAggregateAll(params, e, schools, base, fmts)
        ELSE ComputePerEntity(params, e, schools, base, fmts)

\* ------------------------------------------------------------ inputs
D0 == Instant(0, 0)
D1 == Instant(1, EndOfDay)
\* window_params payloads: explicit instants, a missing end, n = 2, nothing.
W_custom == [start_time |-> Some(D0), end_time |-> Some(D1), n |-> None]
W_no_end == [start_time |-> Some(D0), end_time |-> None, n |-> None]
W_n == [start_time |-> None, end_time |-> None, n |-> Some(2)]
W_empty == [start_time |-> None, end_time |-> None, n |-> None]

\* Computation parameters; "" and {} stand for an absent key.
P_entity == [province |-> "P", cp |-> "C", direction |-> "both", exclude_school |-> {},
             aggregate_all |-> FALSE, settlement_mode |-> "", export_daily |-> FALSE,
             export_formats |-> {}, output_filename_template |-> ""]
P_all == [P_entity EXCEPT !.aggregate_all = TRUE]
P_split == [P_entity EXCEPT !.exclude_school = {"A"}]

TaskPayload(sel, wp, ps, fmts, tmpl) ==
    [window_selector |-> sel, window_params |-> wp, params |-> ps,
     export_formats |-> fmts, output_filename_template |-> tmpl]

\* The schedule fields of a task body (schemas.py:11-16); "" stands for an
\* absent value.
Schedule(active, kind, schedule_type, schedule_expr, schedule_time_of_day) ==
    [active |-> active, kind |-> kind, schedule_type |-> schedule_type,
     schedule_expr |-> schedule_expr, schedule_time_of_day |-> schedule_time_of_day]

\* Bodies of POST/PUT /api/tasks the model submits: an active periodic task
\* with a crontab line, an active periodic task whose interval is not a
\* number, and a one-off task that carries a weekly time of day.
TaskPayloads ==
    { TaskPayload("custom", W_custom, P_entity, {"csv"}, "")
        @@ Schedule(TRUE, "periodic", "cron", "30 3 * * *", ""),
      TaskPayload("custom", W_no_end, P_entity, {"csv"}, "")
        @@ Schedule(TRUE, "periodic", "interval", "soon", ""),
      TaskPayload("last_n_days", W_n, P_all, {"csv", "xlsx"}, "tpl")
        @@ Schedule(TRUE, "one_off", "weekly_preset", "", "03:30:00") }

\* Bodies of POST /api/jobs/run the model submits (window_selector may be
\* absent; create_ad_hoc_job_run itself accepts any selector string).
AdHocPayloads ==
    { TaskPayload("", W_custom, P_split, {"xlsx"}, ""),
      TaskPayload("", W_empty, P_entity, {}, ""),
      TaskPayload("last_month", W_custom, P_entity, {}, "") }

\* What one run of the offloaded work meets: the MySQL settings, the data
\* store, the entity lookup, the sample queries, the matching entities, the
\* entities with samples in the window, and the artifact directory.
E_ok == [config_ok |-> TRUE, db_up |-> TRUE, lookup_ok |-> TRUE, query_ok |-> TRUE,
         schools |-> {"A", "B"}, sampled |-> {"A", "B"}, export_ok |-> TRUE]
Envs ==
    { E_ok,
      [E_ok EXCEPT !.schools = {}, !.sampled = {}],
      [E_ok EXCEPT !.config_ok = FALSE],
      [E_ok EXCEPT !.db_up = FALSE],
      [E_ok EXCEPT !.lookup_ok = FALSE],
      [E_ok EXCEPT !.query_ok = FALSE],
      [E_ok EXCEPT !.schools = {"B"}, !.sampled = {"B"}],
      [E_ok EXCEPT !.schools = {"B"}, !.sampled = {}] }

\* ------------------------------------------------------------- state
VARIABLES
    tasks,    \* table tasks: task id -> row
    runs,     \* table job_runs: job id -> row
    issued,   \* how many job ids uuid4 has handed out
    pc,       \* where each job's _execute_job coroutine stands
    sem,      \* free slots of the process-wide semaphore
    loc,      \* the coroutine's locals loaded at lines 66-82
    res,      \* how the offloaded compute_and_export call ended
    disk,     \* the job directories under STORAGE_DIR/results
    env,      \* the environment each job's work met
    starts,   \* how often each job's work was handed to the executor
    clock,    \* the current day
    ret,      \* the outcome of the job-creation or sweep call made in the last step
    logs,     \* the jobs that have a log file under LOG_DIR
    triggers, \* the tasks that have a trigger "task-<id>" in the scheduler
    call,     \* a direct call of one of the pure functions: its arguments
    result    \* what that call returned, None before it is made

vars == <<tasks, runs, issued, pc, sem, loc, res, disk, env, starts, clock, ret, logs, triggers, call, result>>

Now == Instant(clock, 0)

NoCall == [op |-> "none", selector |-> "", window_params |-> W_empty, out |-> "none", job |-> 0]
Call(op, sel, wp, out, j) == [op |-> op, selector |-> sel, window_params |-> wp, out |-> out, job |-> j]

\* The engine's own variables.
engine == <<tasks, runs, issued, pc, sem, loc, res, disk, env, starts, clock, ret, logs, triggers>>

\* The engine after construction: empty tables, nothing queued, all slots free.
Idle ==
    /\ tasks = << >>
    /\ runs = << >>
    /\ issued = 0
    /\ pc = [j \in JobIds |-> "none"]
    /\ sem = CONCURRENCY_LIMIT
    /\ loc = [j \in JobIds |-> None]
    /\ res = [j \in JobIds |-> None]
    /\ disk = [j \in JobIds |-> None]
    /\ env = [j \in JobIds |-> None]
    /\ starts = [j \in JobIds |-> 0]
    /\ clock = 0
    /\ ret = NoCall
    /\ logs = {}
    /\ triggers = {}

Init ==
    /\ Idle
    /\ call = None
    /\ result = None

\* A table without the rows whose keys are in ks.
Without(table, ks) == [k \in (DOMAIN table) \ ks |-> table[k]]
\* A table with one more row.
With(table, k, row) == [x \in (DOMAIN table) \cup {k} |-> IF x = k THEN row ELSE table[x]]

\* ------------------------------------------------------------ job rows
\* The JobRun row written at creation (scheduler.py:124-130, 153-159).
NewRun(task_id, resolved_window, resolved_params) ==
    [task_id |-> task_id, status |-> "pending", finished_at |-> None,
     resolved_window |-> resolved_window, resolved_params |-> resolved_params,
     artifacts |-> None, log_path |-> None, error_message |-> None]

\* Lines 59-60 (started_at, which no operation reads back, is left out).
MarkRunning(run, now) == [run EXCEPT !.status = "running"]

\* Lines 89-93.
MarkSucceeded(run, artifacts, now, j) ==
    [run EXCEPT !.status = "succeeded", !.finished_at = Some(now),
                !.artifacts = Some(artifacts), !.log_path = Some(j)]

\* Fault variant of MarkFailed: the failed job is put back to pending.
MarkFailed_requeue(run, msg, now, j) ==
    [run EXCEPT !.status = "pending", !.error_message = Some(msg)]

\* Fault variant of MarkFailed: the artifact list the work had built when it
\* raised is stored with the failure.
MarkFailed_keeps_artifacts(run, msg, now, j) ==
    [run EXCEPT !.status = "failed", !.finished_at = Some(now),
                !.error_message = Some(msg), !.log_path = Some(j),
                !.artifacts = Some(Val(res[j]).artifacts)]

\* Lines 98-102.
MarkFailed(run, msg, now, j) ==
    [run EXCEPT !.status = "failed", !.finished_at = Some(now),
                !.error_message = Some(msg), !.log_path = Some(j)]

\* Fault variant of LoadSnapshots: the window is resolved again from the
\* owning task when the job executes.
LoadSnapshots_reresolve(run, ts) ==
    LET t == ts[Val(run.task_id)]
        again == resolve_time_window(t.window_selector, t.window_params, Instant(clock, 0))
    IN  IF ~IsNone(run.task_id) /\ Val(run.task_id) \in DOMAIN ts
        THEN Ok([window |-> IF again.ok THEN again.val ELSE run.resolved_window,
                 params |-> run.resolved_params,
                 export_formats |-> t.export_formats,
                 output_filename_template |-> t.output_filename_template])
        ELSE Ok([window |-> run.resolved_window, params |-> run.resolved_params,
                 export_formats |-> run.resolved_params.export_formats,
                 output_filename_template |-> run.resolved_params.output_filename_template])

\* Lines 66-82: the snapshots come from the job's row; the export options
\* come from the owning task's current row, or from the parameters of an
\* ad-hoc job. A task row that is gone raises AttributeError at line 78.
LoadSnapshots(run, ts) ==
    IF ~IsNone(run.task_id) THEN
        IF Val(run.task_id) \notin DOMAIN ts
        THEN Raise("AttributeError: 'NoneType' object has no attribute 'output_filename_template'")
        ELSE Ok([window |-> run.resolved_window, params |-> run.resolved_params,
                 export_formats |-> ts[Val(run.task_id)].export_formats,
                 output_filename_template |-> ts[Val(run.task_id)].output_filename_template])
    ELSE Ok([window |-> run.resolved_window, params |-> run.resolved_params,
             export_formats |-> run.resolved_params.export_formats,
             output_filename_template |-> run.resolved_params.output_filename_template])

\* ------------------------------------------------------------ tasks API
\* The name "scheduler" in main.py. The import at main.py:26 binds it to the
\* value services.scheduler.scheduler has when main is loaded, which is None
\* (scheduler.py:23); _ensure_scheduler later rebinds the scheduler module's
\* own name only, so the guards "if scheduler:" of main.py never pass.
scheduler_in_main == None

\* The id SQLite gives a new task row: one past the largest rowid in use.
NextTaskId ==
    IF DOMAIN tasks = {} THEN 1
    ELSE (CHOOSE m \in DOMAIN tasks : \A k \in DOMAIN tasks : k <= m) + 1

\* What CronTrigger.from_crontab, int() and the HH:MM:SS split accept.
Crontabs == {"30 3 * * *"}
Seconds == {"3600"}
TimesOfDay == {"03:30:00"}

\* apply_schedule_for_task_snapshot (scheduler.py:216-245) on the registry
\* reg: the entry "task-<id>" is removed, then added again for an active
\* periodic task whose schedule the trigger constructors accept; a schedule
\* they reject raises inside the try and leaves no entry.
apply_schedule_for_task_snapshot(reg, task_id, t) ==
    LET removed == reg \ {task_id}
    IN  IF ~t.active \/ t.kind # "periodic" THEN removed
        ELSE IF t.schedule_type = "cron" /\ t.schedule_expr # "" THEN
            IF t.schedule_expr \in Crontabs THEN removed \cup {task_id} ELSE removed
        ELSE IF t.schedule_type = "interval" /\ t.schedule_expr # "" THEN
            IF t.schedule_expr \in Seconds THEN removed \cup {task_id} ELSE removed
        ELSE IF t.schedule_type = "weekly_preset" /\ t.schedule_time_of_day # "" THEN
            IF t.schedule_time_of_day \in TimesOfDay THEN removed \cup {task_id} ELSE removed
        ELSE removed

\* POST /api/tasks (main.py:132-183): the row is flushed, the schedule is
\* applied, and the session commits when the handler leaves session_scope
\* (db.py:45-54); a commit that fails rolls the row back and leaves the
\* scheduler as it is by then.
create_task(p, committed) ==
    /\ NextTaskId <= MaxTasks
    /\ tasks' = IF committed THEN With(tasks, NextTaskId, p) ELSE tasks
    /\ triggers' = apply_schedule_for_task_snapshot(triggers, NextTaskId, p)
    /\ <<tasks', triggers'>> # <<tasks, triggers>>
    /\ ret' = NoCall
    /\ UNCHANGED <<runs, issued, pc, sem, loc, res, disk, env, starts, clock>>
    /\ UNCHANGED <<logs, call, result>>

\* PUT /api/tasks/{task_id} (main.py:239-284): the row takes the body's
\* fields and the schedule is applied from them before the commit.
update_task(t, p, committed) ==
    /\ t \in DOMAIN tasks
    /\ tasks' = IF committed THEN [tasks EXCEPT ![t] = p] ELSE tasks
    /\ triggers' = apply_schedule_for_task_snapshot(triggers, t, p)
    /\ <<tasks', triggers'>> # <<tasks, triggers>>
    /\ ret' = NoCall
    /\ UNCHANGED <<runs, issued, pc, sem, loc, res, disk, env, starts, clock>>
    /\ UNCHANGED <<logs, call, result>>

\* The rows s.delete(task) removes with the task: Task.runs cascades
\* "all, delete-orphan" (models.py:40).
CascadedRuns(t) == {j \in DOMAIN runs : runs[j].task_id = Some(t)}

\* DELETE /api/tasks/{task_id} (main.py:287-300): the row and its job rows
\* are deleted and committed; the trigger is removed only under
\* "if scheduler:" (line 296).
delete_task(t) ==
    /\ t \in DOMAIN tasks
    /\ tasks' = Without(tasks, {t})
    /\ runs' = Without(runs, CascadedRuns(t))
    /\ triggers' = IF IsNone(scheduler_in_main) THEN triggers ELSE triggers \ {t}
    /\ ret' = NoCall
    /\ UNCHANGED <<issued, pc, sem, loc, res, disk, env, starts, clock>>
    /\ UNCHANGED <<logs, call, result>>

\* ------------------------------------------------------- job creation
\* Persist the pending row and hand _execute_job to the scheduler
\* (scheduler.py:131-134, 160-163).
Persist(j, row) ==
    /\ runs' = With(runs, j, row)
    /\ pc' = [pc EXCEPT ![j] = "scheduled"]
    /\ issued' = j

\* create_job_run_from_task (scheduler.py:107-135), called by
\* POST /api/tasks/{id}/run and by a task's trigger.
create_job_run_from_task(t) ==
    /\ issued < MaxJobs
    /\ IF t \notin DOMAIN tasks
       THEN /\ ret' = Call("create_job_run_from_task", "", W_empty, "ValueError: Task not found", 0)
            /\ UNCHANGED <<runs, pc, issued>>
       ELSE LET task == tasks[t]
                w == resolve_time_window(task.window_selector, task.window_params, Now)
            IN  IF w.ok
                THEN /\ Persist(issued + 1, NewRun(Some(t), w.val, task.params))
                     /\ ret' = Call("create_job_run_from_task", task.window_selector,
                                    task.window_params, "created", issued + 1)
                ELSE /\ ret' = Call("create_job_run_from_task", task.window_selector,
                                    task.window_params, w.err, 0)
                     /\ UNCHANGED <<runs, pc, issued>>
    /\ UNCHANGED <<tasks, sem, loc, res, disk, env, starts, clock>>
    /\ UNCHANGED <<logs, triggers, call, result>>

\* create_ad_hoc_job_run (scheduler.py:138-164).
create_ad_hoc_job_run(payload) ==
    /\ issued < MaxJobs
    /\ LET selector == IF payload.window_selector = "" THEN "custom" ELSE payload.window_selector
           w == resolve_time_window(selector, payload.window_params, Now)
           p1 == IF payload.export_formats # {}
                 THEN [payload.params EXCEPT !.export_formats = payload.export_formats]
                 ELSE payload.params
           resolved_params ==
                 IF payload.output_filename_template # ""
                 THEN [p1 EXCEPT !.output_filename_template = payload.output_filename_template]
                 ELSE p1
       IN  IF w.ok
           THEN /\ Persist(issued + 1, NewRun(None, w.val, resolved_params))
                /\ ret' = Call("create_ad_hoc_job_run", selector, payload.window_params,
                               "created", issued + 1)
           ELSE /\ ret' = Call("create_ad_hoc_job_run", selector, payload.window_params, w.err, 0)
                /\ UNCHANGED <<runs, pc, issued>>
    /\ UNCHANGED <<tasks, sem, loc, res, disk, env, starts, clock>>
    /\ UNCHANGED <<logs, triggers, call, result>>

\* ---------------------------------------------------------- _execute_job
\* Fault variant of Enter: a coroutine that finds its row gone runs the work
\* all the same, on a default custom window and per-entity parameters.
Enter_without_row(j, rs) ==
    IF j \notin DOMAIN rs
    THEN /\ runs' = rs
         /\ loc' = [loc EXCEPT ![j] =
                       Some([window |-> resolve_time_window("custom", W_custom, Now).val,
                             params |-> P_entity, export_formats |-> {"csv"},
                             output_filename_template |-> ""])]
         /\ starts' = [starts EXCEPT ![j] = @ + 1]
         /\ sem' = sem - 1
         /\ pc' = [pc EXCEPT ![j] = "working"]
    ELSE LET l == LoadSnapshots(rs[j], tasks)
         IN  IF l.ok
             THEN /\ runs' = rs
                  /\ loc' = [loc EXCEPT ![j] = Some(l.val)]
                  /\ starts' = [starts EXCEPT ![j] = @ + 1]
                  /\ sem' = sem - 1
                  /\ pc' = [pc EXCEPT ![j] = "working"]
             ELSE /\ runs' = [rs EXCEPT ![j] = MarkFailed(@, l.err, clock, j)]
                  /\ pc' = [pc EXCEPT ![j] = "done"]
                  /\ UNCHANGED <<sem, loc, starts>>

\* Lines 62-86 once the slot is held, over the job table rs: load the
\* snapshots and hand the work to the executor. When the row is gone the
\* load raises AttributeError and so does the handler (lines 98-99), which
\* ends the coroutine; "async with" gives the slot back on every exit.
Enter(j, rs) ==
    IF j \notin DOMAIN rs
    THEN /\ runs' = rs
         /\ pc' = [pc EXCEPT ![j] = "crashed"]
         /\ UNCHANGED <<sem, loc, starts>>
    ELSE LET l == LoadSnapshots(rs[j], tasks)
         IN  IF l.ok
             THEN /\ runs' = rs
                  /\ loc' = [loc EXCEPT ![j] = Some(l.val)]
                  /\ starts' = [starts EXCEPT ![j] = @ + 1]
                  /\ sem' = sem - 1
                  /\ pc' = [pc EXCEPT ![j] = "working"]
             ELSE /\ runs' = [rs EXCEPT ![j] = MarkFailed(@, l.err, clock, j)]
                  /\ pc' = [pc EXCEPT ![j] = "done"]
                  /\ UNCHANGED <<sem, loc, starts>>

\* The scheduler runs the coroutine (lines 51-62): the job's logger opens
\* its log file (line 54, logger.py:17-32); a missing row returns at
\* line 58; otherwise the row is marked running, and only then the slot
\* is asked for. With a free slot acquire() does not suspend.
Start(j) ==
    /\ pc[j] = "scheduled"
    /\ IF j \notin DOMAIN runs
       THEN /\ pc' = [pc EXCEPT ![j] = "skipped"]
            /\ UNCHANGED <<runs, sem, loc, starts>>
       ELSE LET rs == [runs EXCEPT ![j] = MarkRunning(@, clock)]
            IN  IF sem > 0
                THEN Enter(j, rs)
                ELSE /\ runs' = rs
                     /\ pc' = [pc EXCEPT ![j] = "waiting"]
                     /\ UNCHANGED <<sem, loc, starts>>
    /\ ret' = NoCall
    /\ UNCHANGED <<tasks, issued, res, disk, env, clock>>
    /\ logs' = logs \cup {j}
    /\ UNCHANGED <<triggers, call, result>>

\* A coroutine suspended at line 62 gets a released slot.
Acquire(j) ==
    /\ pc[j] = "waiting"
    /\ sem > 0
    /\ Enter(j, runs)
    /\ ret' = NoCall
    /\ UNCHANGED <<tasks, issued, res, disk, env, clock>>
    /\ UNCHANGED <<logs, triggers, call, result>>

\* safe_artifact_path makes the job directory before any file is written.
DirMade(r) == r.written # {} \/ r.err = "OSError: cannot write artifact"

\* The executor thread runs compute_and_export (line 86) in environment e.
Work(j, e) ==
    /\ pc[j] = "working"
    /\ LET l == Val(loc[j])
           r == compute_and_export(l.window, l.params, l.export_formats,
                                   l.output_filename_template, e)
       IN  /\ res' = [res EXCEPT ![j] = Some(r)]
           /\ disk' = [disk EXCEPT ![j] =
                         IF DirMade(r)
                         THEN Some((IF IsNone(@) THEN {} ELSE Val(@)) \cup r.written)
                         ELSE @]
    /\ env' = [env EXCEPT ![j] = Some(e)]
    /\ pc' = [pc EXCEPT ![j] = "resume"]
    /\ ret' = NoCall
    /\ UNCHANGED <<tasks, runs, issued, sem, loc, starts, clock>>
    /\ UNCHANGED <<logs, triggers, call, result>>

\* Fault variant of Resume: when the row is gone and the failure handler
\* raises in its turn, the slot is not given back.
Resume_keeps_slot(j) ==
    /\ pc[j] = "resume"
    /\ LET r == Val(res[j])
       IN  IF r.kind = "exit"
           THEN /\ pc' = [pc EXCEPT ![j] = "exited"]
                /\ UNCHANGED runs
           ELSE IF j \notin DOMAIN runs
           THEN /\ pc' = [pc EXCEPT ![j] = "crashed"]
                /\ UNCHANGED runs
           ELSE IF r.kind = "return"
           THEN /\ runs' = [runs EXCEPT ![j] = MarkSucceeded(@, r.artifacts, clock, j)]
                /\ pc' = [pc EXCEPT ![j] = "done"]
           ELSE /\ runs' = [runs EXCEPT ![j] = MarkFailed(@, r.err, clock, j)]
                /\ pc' = [pc EXCEPT ![j] = "done"]
    /\ sem' = IF j \in DOMAIN runs THEN sem + 1 ELSE sem
    /\ loc' = [loc EXCEPT ![j] = None]
    /\ res' = [res EXCEPT ![j] = None]
    /\ ret' = NoCall
    /\ UNCHANGED <<tasks, issued, disk, env, starts, clock>>
    /\ UNCHANGED <<logs, triggers, call, result>>

\* The coroutine resumes with the work's outcome (lines 87-104): a result
\* is persisted as succeeded, an Exception as failed; SystemExit is not an
\* Exception and passes the handler, leaving the row as it was. A row that
\* is gone raises AttributeError in the update and again in the handler.
Resume(j) ==
    /\ pc[j] = "resume"
    /\ LET r == Val(res[j])
       IN  IF r.kind = "exit"
           THEN /\ pc' = [pc EXCEPT ![j] = "exited"]
                /\ UNCHANGED runs
           ELSE IF j \notin DOMAIN runs
           THEN /\ pc' = [pc EXCEPT ![j] = "crashed"]
                /\ UNCHANGED runs
           ELSE IF r.kind = "return"
           THEN /\ runs' = [runs EXCEPT ![j] = MarkSucceeded(@, r.artifacts, clock, j)]
                /\ pc' = [pc EXCEPT ![j] = "done"]
           ELSE /\ runs' = [runs EXCEPT ![j] = MarkFailed(@, r.err, clock, j)]
                /\ pc' = [pc EXCEPT ![j] = "done"]
    /\ sem' = sem + 1
    /\ loc' = [loc EXCEPT ![j] = None]
    /\ res' = [res EXCEPT ![j] = None]
    /\ ret' = NoCall
    /\ UNCHANGED <<tasks, issued, disk, env, starts, clock>>
    /\ UNCHANGED <<logs, triggers, call, result>>

\* ------------------------------------------------------------- jobs API
\* DELETE /api/jobs/{job_id} (main.py:381-407): the scheduler entry is
\* removed only under "if scheduler:" (line 385); the artifact directory, the
\* log file and the row go; an id with nothing to remove is answered ok all
\* the same, which changes nothing. A coroutine already started is not told.
delete_job(j) ==
    /\ pc' = IF IsNone(scheduler_in_main) THEN pc
             ELSE [pc EXCEPT ![j] = IF @ = "scheduled" THEN "cancelled" ELSE @]
    /\ disk' = [disk EXCEPT ![j] = None]
    /\ runs' = Without(runs, {j})
    /\ logs' = logs \ {j}
    /\ <<pc', disk', runs', logs'>> # <<pc, disk, runs, logs>>
    /\ ret' = NoCall
    /\ UNCHANGED <<tasks, issued, sem, loc, res, env, starts, clock>>
    /\ UNCHANGED <<triggers, call, result>>

\* ------------------------------------------------------ retention sweep
\* Fault variant of old_runs: a row finished exactly at the cutoff is old too.
old_runs_inclusive ==
    {j \in DOMAIN runs :
        /\ ~IsNone(runs[j].finished_at)
        /\ Val(runs[j].finished_at) <= clock - RETENTION_DAYS}

\* Fault variant of old_runs: a row without a finish time is old as well.
old_runs_unfinished ==
    {j \in DOMAIN runs :
        \/ IsNone(runs[j].finished_at)
        \/ Val(runs[j].finished_at) < clock - RETENTION_DAYS}

\* The rows _cleanup selects (scheduler.py:198, 204).
old_runs ==
    {j \in DOMAIN runs :
        /\ ~IsNone(runs[j].finished_at)
        /\ Val(runs[j].finished_at) < clock - RETENTION_DAYS}

\* _cleanup (scheduler.py:197-211): directory and row of each old run go.
Sweep ==
    /\ old_runs # {}
    /\ disk' = [j \in JobIds |-> IF j \in old_runs THEN None ELSE disk[j]]
    /\ runs' = Without(runs, old_runs)
    /\ ret' = Call("_cleanup", "", W_empty, "swept", 0)
    /\ UNCHANGED <<tasks, issued, pc, sem, loc, res, env, starts, clock>>
    /\ UNCHANGED <<logs, triggers, call, result>>

\* A day passes.
Tick ==
    /\ clock < MaxDay
    /\ clock' = clock + 1
    /\ ret' = NoCall
    /\ UNCHANGED <<tasks, runs, issued, pc, sem, loc, res, disk, env, starts>>
    /\ UNCHANGED <<logs, triggers, call, result>>

Next ==
    \/ \E p \in TaskPayloads, committed \in BOOLEAN : create_task(p, committed)
    \/ \E t \in TaskIds, p \in TaskPayloads, committed \in BOOLEAN : update_task(t, p, committed)
    \/ \E t \in TaskIds : delete_task(t)
    \/ \E t \in TaskIds : create_job_run_from_task(t)
    \/ \E p \in AdHocPayloads : create_ad_hoc_job_run(p)
    \/ \E j \in JobIds : Start(j)
    \/ \E j \in JobIds : Acquire(j)
    \/ \E j \in JobIds, e \in Envs : Work(j, e)
    \/ \E j \in JobIds : Resume(j)
    \/ \E j \in JobIds : delete_job(j)
    \/ Sweep
    \/ Tick

Spec == Init /\ [][Next]_vars

\* ================================================================ claims
\* Jobs whose coroutine has ended, however it ended.
Ended(j) == pc[j] \in {"done", "crashed", "exited"}

StatusSteps == { <<"pending", "running">>, <<"running", "succeeded">>, <<"running", "failed">> }

\* C1: a job's persisted status only ever moves pending -> running ->
\* succeeded or pending -> running -> failed: a row appears as pending, and
\* only for an id never used before; every change of status is one of the
\* three steps, so nothing is skipped or revisited and succeeded and failed
\* are final.
C1_StatusMonotonic ==
    [][\A j \in JobIds :
        /\ (j \notin DOMAIN runs /\ j \in DOMAIN runs')
              => (runs'[j].status = "pending" /\ pc[j] = "none")
        /\ (j \in DOMAIN runs /\ j \in DOMAIN runs' /\ runs'[j].status # runs[j].status)
              => <<runs[j].status, runs'[j].status>> \in StatusSteps]_vars

\* C1's case: one job has ended succeeded and another failed.
C1_Witness ==
    \E j, k \in DOMAIN runs : runs[j].status = "succeeded" /\ runs[k].status = "failed"

\* C2: at most CONCURRENCY_LIMIT jobs have persisted status running.
C2_AtMostLimitRunning ==
    Cardinality({j \in DOMAIN runs : runs[j].status = "running"}) <= CONCURRENCY_LIMIT

\* C3: a job's window and parameter snapshots are written once, at creation,
\* as the resolver's result at that moment; no later step changes them while
\* the row exists; and the execution loads the stored window and parameters
\* rather than resolving again.
C3_SnapshotFrozen ==
    [][\A j \in JobIds :
        /\ (j \notin DOMAIN runs /\ j \in DOMAIN runs')
              => /\ ret'.job = j
                 /\ Ok(runs'[j].resolved_window)
                      = resolve_time_window(ret'.selector, ret'.window_params, Now)
        /\ (j \in DOMAIN runs /\ j \in DOMAIN runs')
              => /\ runs'[j].resolved_window = runs[j].resolved_window
                 /\ runs'[j].resolved_params = runs[j].resolved_params
        /\ (IsNone(loc[j]) /\ ~IsNone(loc'[j]))
              => /\ Val(loc'[j]).window = runs'[j].resolved_window
                 /\ Val(loc'[j]).params = runs'[j].resolved_params]_vars

\* C3's case: a job is executing with its snapshots loaded while its owning
\* task has since been edited to other parameters and the day has changed.
C3_Witness ==
    \E j \in DOMAIN runs :
        /\ ~IsNone(loc[j])
        /\ ~IsNone(runs[j].task_id)
        /\ Val(runs[j].task_id) \in DOMAIN tasks
        /\ tasks[Val(runs[j].task_id)].params # runs[j].resolved_params
        /\ tasks[Val(runs[j].task_id)].window_selector = "last_n_days"
        /\ runs[j].resolved_window.label[1] = "custom"
        /\ clock > 0

\* C4: editing a task never affects a job already created from it: what a
\* job whose row is untouched will read when it executes (its window, its
\* parameters, the export formats and the file name template) is the same
\* after any step as before.
C4_TaskEditLeavesJobAlone ==
    [][\A j \in JobIds :
        (j \in DOMAIN runs /\ j \in DOMAIN runs' /\ runs'[j] = runs[j]
            /\ DOMAIN tasks' = DOMAIN tasks)
          => LoadSnapshots(runs'[j], tasks') = LoadSnapshots(runs[j], tasks)]_vars

\* C5: deleting a task leaves every job row in the store as it was.
C5_TaskDeleteKeepsJobs ==
    [][\A t \in TaskIds : (t \in DOMAIN tasks /\ t \notin DOMAIN tasks') => runs' = runs]_vars

\* A run that meets no fault, with entities selected and samples for each.
FaultFree(e) == e.config_ok /\ e.db_up /\ e.lookup_ok /\ e.query_ok /\ e.export_ok
WithSamples(e) == e.schools # {} /\ e.schools \subseteq e.sampled

\* C6: a job whose run meets no fault and whose entities have samples ends
\* succeeded, whatever its partition mode.
C6_FaultFreeRunSucceeds ==
    \A j \in DOMAIN runs :
        (/\ Ended(j)
         /\ ~IsNone(env[j])
         /\ FaultFree(Val(env[j]))
         /\ WithSamples(Val(env[j]))
         /\ runs[j].resolved_params.province # ""
         /\ runs[j].resolved_params.cp # "")
          => runs[j].status = "succeeded"

\* C7: a job that finds the data store unreachable, or its settings
\* missing, ends failed with the error recorded.
C7_UnreachableStoreFails ==
    \A j \in DOMAIN runs :
        (/\ Ended(j)
         /\ ~IsNone(env[j])
         /\ (~Val(env[j]).config_ok \/ ~Val(env[j]).db_up)
         /\ runs[j].resolved_params.province # ""
         /\ runs[j].resolved_params.cp # "")
          => (runs[j].status = "failed" /\ ~IsNone(runs[j].error_message))

\* C8: a job one of whose queries the data store rejected ends failed.
C8_RejectedQueryFails ==
    \A j \in DOMAIN runs :
        (/\ Ended(j)
         /\ ~IsNone(env[j])
         /\ Val(env[j]).config_ok /\ Val(env[j]).db_up
         /\ (~Val(env[j]).lookup_ok \/ ~Val(env[j]).query_ok)
         /\ runs[j].resolved_params.province # ""
         /\ runs[j].resolved_params.cp # "")
          => runs[j].status = "failed"

\* How the work of an ended job came out, from its row and its environment
\* (the export options do not decide whether the call returns).
WorkKind(j) ==
    compute_and_export(runs[j].resolved_window, runs[j].resolved_params, {}, "", Val(env[j])).kind

\* C9: a job's work is started at most once, and a job whose work raised
\* ends failed with a non-empty error message and a finish time.
C9_RaisedWorkFailsOnce ==
    \A j \in JobIds :
        /\ starts[j] <= 1
        /\ (j \in DOMAIN runs /\ Ended(j) /\ ~IsNone(env[j]) /\ WorkKind(j) # "return")
              => /\ runs[j].status = "failed"
                 /\ ~IsNone(runs[j].error_message)
                 /\ Val(runs[j].error_message) # ""
                 /\ ~IsNone(runs[j].finished_at)

\* The inputs on which window resolution fails.
Unresolvable(selector, window_params) ==
    \/ selector = "custom"
         /\ (IsNone(window_params.start_time) \/ IsNone(window_params.end_time))
    \/ selector \notin {"custom", "last_week", "last_n_days"}

\* C10: a job-creation call whose window does not resolve, from a task or
\* ad hoc, reports the error to its caller, persists no row and schedules
\* no execution.
C10_InvalidWindowCreatesNothing ==
    [][(ret'.op \in {"create_job_run_from_task", "create_ad_hoc_job_run"}
            /\ Unresolvable(ret'.selector, ret'.window_params))
          => /\ ret'.out # "created"
             /\ runs' = runs
             /\ pc' = pc
             /\ issued' = issued]_vars

\* C10's case: a task whose custom window lacks its end was asked to run
\* and the caller got the resolver's error.
C10_Witness ==
    /\ ret.op = "create_job_run_from_task"
    /\ ret.selector = "custom"
    /\ IsNone(ret.window_params.end_time)
    /\ ret.out = "ValueError: custom window requires start_time and end_time"

\* C19: a retention sweep removes, row and artifact directory, every job
\* whose finish time is earlier than now - RETENTION_DAYS, and leaves every
\* finished job whose finish time is not earlier than that as it was, with
\* its artifacts.
C19_SweepRemovesOldKeepsYoung ==
    [][ret'.op = "_cleanup"
          => \A j \in DOMAIN runs :
                ~IsNone(runs[j].finished_at)
                  => IF Val(runs[j].finished_at) < clock - RETENTION_DAYS
                     THEN j \notin DOMAIN runs' /\ IsNone(disk'[j])
                     ELSE /\ j \in DOMAIN runs'
                          /\ runs'[j] = runs[j]
                          /\ disk'[j] = disk[j]]_vars

\* C19's case: a sweep has just removed one finished job while another,
\* finished within the horizon, is still there with its directory.
C19_Witness ==
    /\ ret.op = "_cleanup"
    /\ \E j \in JobIds : j \notin DOMAIN runs /\ pc[j] = "done" /\ IsNone(disk[j])
    /\ \E k \in DOMAIN runs :
          /\ ~IsNone(runs[k].finished_at)
          /\ Val(runs[k].finished_at) >= clock - RETENTION_DAYS
          /\ ~IsNone(disk[k])

\* C20: a retention sweep never deletes a job whose status is pending or
\* running, however old the job is and wherever its execution stands.
C20_SweepSparesUnfinished ==
    [][ret'.op = "_cleanup"
          => \A j \in DOMAIN runs :
                runs[j].status \in {"pending", "running"}
                  => /\ j \in DOMAIN runs'
                     /\ runs'[j] = runs[j]
                     /\ disk'[j] = disk[j]]_vars

\* C20's case: a sweep has just removed the second job, finished beyond
\* the horizon, while the first job, created before it, is still pending
\* or running.
C20_Witness ==
    /\ ret.op = "_cleanup"
    /\ 2 \notin DOMAIN runs /\ pc[2] = "done"
    /\ 1 \in DOMAIN runs
    /\ runs[1].status \in {"pending", "running"}

\* C21: a job whose row is deleted before it has acquired a slot, in the
\* scheduler's queue or waiting for a slot, is cancelled: from then on its
\* row does not come back and its work is never started.
C21_DeleteBeforeSlotCancels ==
    [][\A j \in JobIds :
        (pc[j] # "none" /\ j \notin DOMAIN runs /\ starts[j] = 0)
          => /\ j \notin DOMAIN runs'
             /\ starts'[j] = 0
             /\ pc'[j] \notin {"working", "resume"}]_vars

\* C21's case: a job deleted while it waited for a slot got the slot later
\* and ended without any work.
C21_Witness ==
    \E j \in JobIds : j \notin DOMAIN runs /\ pc[j] = "crashed" /\ starts[j] = 0

\* A job is running while its coroutine is between the status update of
\* line 59 and its end, or its row says so.
NotRunning(j) ==
    /\ pc[j] \notin {"waiting", "working", "resume"}
    /\ j \in DOMAIN runs => runs[j].status # "running"

\* This step is delete_job(j) taking away j's row: the only other steps
\* that remove a row are delete_task, which removes a task too, and the
\* sweep, which leaves its mark in ret.
DeletesJob(j) ==
    /\ j \in DOMAIN runs /\ j \notin DOMAIN runs'
    /\ tasks' = tasks
    /\ ret'.op # "_cleanup"

\* C22: a delete_job(j) step taken for a job that is not running leaves j
\* without a row, without an artifact directory, without a log file and
\* without a scheduler entry, and leaves the row, the files, the log and the
\* coroutine of every other job as they were.
C22_DeleteRemovesEverything ==
    [][\A j \in JobIds :
        (DeletesJob(j) /\ NotRunning(j))
          => /\ j \notin DOMAIN runs'
             /\ IsNone(disk'[j])
             /\ j \notin logs'
             /\ pc'[j] # "scheduled"
             /\ \A k \in JobIds \ {j} :
                    /\ (k \in DOMAIN runs') = (k \in DOMAIN runs)
                    /\ k \in DOMAIN runs => runs'[k] = runs[k]
                    /\ disk'[k] = disk[k]
                    /\ (k \in logs') = (k \in logs)
                    /\ pc'[k] = pc[k]]_vars

\* The files a row's artifact list refers to.
Referenced(run) ==
    IF IsNone(run.artifacts) THEN {}
    ELSE {Val(run.artifacts)[i] : i \in 1..Len(Val(run.artifacts))}

\* C23: in the step that makes a job succeeded every artifact the row then
\* refers to is already a finished file in the job directory, and a job that
\* is failed refers to no artifact, whatever its run had written when it
\* raised.
C23_SucceededArtifactsAreWritten ==
    [][\A j \in JobIds :
        j \in DOMAIN runs'
          => /\ (runs'[j].status = "succeeded" /\ j \in DOMAIN runs
                    /\ runs[j].status # "succeeded")
                  => /\ ~IsNone(runs'[j].artifacts)
                     /\ ~IsNone(disk[j])
                     /\ Referenced(runs'[j]) \subseteq Val(disk[j])
             /\ runs'[j].status = "failed" => Referenced(runs'[j]) = {}]_vars

\* One job has succeeded with an artifact that is on disk, and another has
\* failed after its run had put a file in its directory.
C23_Witness ==
    \E j \in JobIds : \E k \in JobIds \ {j} :
        /\ j \in DOMAIN runs /\ runs[j].status = "succeeded"
        /\ Referenced(runs[j]) # {} /\ ~IsNone(disk[j])
        /\ Referenced(runs[j]) \subseteq Val(disk[j])
        /\ k \in DOMAIN runs /\ runs[k].status = "failed"
        /\ ~IsNone(disk[k]) /\ Val(disk[k]) # {}
        /\ IsNone(runs[k].artifacts)

\* A task row that is active and periodic and carries a schedule of its type
\* that a trigger can be built from.
WantsTrigger(t) ==
    /\ t.active
    /\ t.kind = "periodic"
    /\ \/ t.schedule_type = "cron" /\ t.schedule_expr \in Crontabs
       \/ t.schedule_type = "interval" /\ t.schedule_expr \in Seconds
       \/ t.schedule_type = "weekly_preset" /\ t.schedule_time_of_day \in TimesOfDay

\* C24: the scheduler holds a trigger for exactly the tasks that exist and
\* are active, periodic and validly scheduled, whatever creations, updates
\* and deletions, committed or not, came before.
C24_RegistryMatchesTasks ==
    triggers = {t \in DOMAIN tasks : WantsTrigger(tasks[t])}

\* The entities a job computes as one aggregate in environment e: the
\* remaining subset of the split, or all of them in aggregate-all mode.
AggregatePartition(params, e) ==
    IF params.exclude_school # {} THEN e.schools \ params.exclude_school
    ELSE IF params.aggregate_all THEN e.schools
    ELSE {}

\* The tag of the aggregate output's file name.
AggregateTag(params) == IF params.exclude_school # {} THEN "remaining" ELSE ""

\* C26: a job that computes an aggregate over a partition without a single
\* sample in the window, on a store that answers every query, ends succeeded
\* and refers to a placeholder file for that output.
C26_EmptyAggregateGetsPlaceholder ==
    \A j \in DOMAIN runs :
        (/\ Ended(j)
         /\ ~IsNone(env[j])
         /\ FaultFree(Val(env[j]))
         /\ runs[j].resolved_params.province # ""
         /\ runs[j].resolved_params.cp # ""
         /\ AggregatePartition(runs[j].resolved_params, Val(env[j])) # {}
         /\ ~aggregate_speed_data(Val(env[j]),
                                  AggregatePartition(runs[j].resolved_params, Val(env[j]))))
          => /\ runs[j].status = "succeeded"
             /\ \E f \in Referenced(runs[j]) :
                    f.suffix = <<AggregateTag(runs[j].resolved_params), "csv">>

\* The jobs whose work holds a slot: handed to the executor and not yet
\* back out of "async with".
InFlight == {j \in JobIds : pc[j] \in {"working", "resume"}}

\* C29: at most CONCURRENCY_LIMIT jobs are in flight, and the free slots and
\* the jobs in flight add up to CONCURRENCY_LIMIT: every way out of the work
\* gives the slot back.
C29_SlotsAccountedFor ==
    /\ Cardinality(InFlight) <= CONCURRENCY_LIMIT
    /\ sem + Cardinality(InFlight) = CONCURRENCY_LIMIT

\* One job's row was deleted while its work ran and its coroutine has ended
\* in the failure handler; one has ended through SystemExit; the slot is
\* free again.
C29_Witness ==
    \E j \in JobIds : \E k \in JobIds \ {j} :
        /\ pc[j] = "crashed" /\ starts[j] = 1 /\ j \notin DOMAIN runs
        /\ pc[k] = "exited" /\ starts[k] = 1
        /\ sem = CONCURRENCY_LIMIT

\* C30: a job whose row was removed while its work was in flight, and whose
\* coroutine has come back from the work, has no row and no artifact
\* directory.
C30_DeletedInFlightLeavesNothing ==
    \A j \in JobIds :
        (pc[j] = "crashed" /\ starts[j] = 1)
          => (j \notin DOMAIN runs /\ IsNone(disk[j]))

\* ------------------------------------------------- execution, scheduled fairly
\* The job engine on ad-hoc jobs alone.
NextLive ==
    \/ \E p \in AdHocPayloads : create_ad_hoc_job_run(p)
    \/ \E j \in JobIds : Start(j)
    \/ \E j \in JobIds : Acquire(j)
    \/ \E j \in JobIds, e \in Envs : Work(j, e)
    \/ \E j \in JobIds : Resume(j)
    \/ \E j \in JobIds : delete_job(j)

\* The scheduler starts every coroutine it was handed; the semaphore wakes
\* its waiters in the order they came, so a waiter is not passed over for
\* ever; the offloaded work ends, returning or raising; and the event loop
\* resumes a coroutine whose future is done.
Fairness ==
    \A j \in JobIds :
        /\ WF_vars(Start(j))
        /\ SF_vars(Acquire(j))
        /\ WF_vars(\E e \in Envs : Work(j, e))
        /\ WF_vars(Resume(j))

SpecLive == Init /\ [][NextLive]_vars /\ Fairness

\* C28: every job that has a row comes to status succeeded or failed, unless
\* its row is deleted first.
C28_EveryJobEnds ==
    \A j \in JobIds :
        (j \in DOMAIN runs)
          ~> (j \notin DOMAIN runs \/ runs[j].status \in {"succeeded", "failed"})

\* ================================================ the window resolver alone
\* Days on which the resolver is called: three weeks from a Monday.
MaxNowDay == 20
\* Largest n given to last_n_days.
MaxN == 7

\* Midnight, noon and the last second of a day.
DaySeconds == {0, 43200, EndOfDay}
Nows == {Instant(d, s) : d \in 0..MaxNowDay, s \in DaySeconds}
NParams == {W_empty} \cup {[W_empty EXCEPT !.n = Some(n)] : n \in (-1)..MaxN}

\* Calls resolve_time_window(selector, params, tz) made at instant now.
WindowCalls ==
    {[selector |-> "last_week", params |-> W_empty, now |-> t] : t \in Nows}
    \cup {[selector |-> "last_n_days", params |-> wp, now |-> t] : wp \in NParams, t \in Nows}
    \cup {[selector |-> c, params |-> wp, now |-> Instant(0, 0)] :
            c \in {"custom", "last_month"}, wp \in {W_custom, W_no_end}}

InitWindow ==
    /\ Idle
    /\ call \in WindowCalls
    /\ result = None

\* The call is made and returns or raises.
Resolve ==
    /\ IsNone(result)
    /\ result' = Some(resolve_time_window(call.selector, call.params, call.now))
    /\ UNCHANGED <<engine, call>>

NextWindow == Resolve

SpecWindow == InitWindow /\ [][NextWindow]_vars

\* C11: resolving selector last_n_days with n < 1 raises an invalid-window
\* error instead of returning a window.
C11_NonPositiveNRejected ==
    (/\ ~IsNone(result)
     /\ call.selector = "last_n_days"
     /\ ~IsNone(call.params.n)
     /\ Val(call.params.n) < 1)
      => ~Val(result).ok

\* Seconds from the epoch of the model's calendar to an instant.
Secs(t) == t.day * (EndOfDay + 1) + t.sec

\* C16: for n >= 1 selector last_n_days returns end = 23:59:59 of now's day
\* and start = 00:00:00 of the day n - 1 days earlier, n calendar days in
\* all; n is 7 when not given.
C16_LastNDaysEndsToday ==
    (/\ ~IsNone(result)
     /\ call.selector = "last_n_days"
     /\ (IsNone(call.params.n) \/ Val(call.params.n) >= 1))
      => LET n == IF IsNone(call.params.n) THEN 7 ELSE Val(call.params.n)
             w == Val(result).val
         IN  /\ Val(result).ok
             /\ w.end_time = Instant(call.now.day, EndOfDay)
             /\ w.start_time = Instant(call.now.day - (n - 1), 0)
             /\ Secs(w.end_time) - Secs(w.start_time) + 1 = n * (EndOfDay + 1)

\* C16's case: n is not given and now is noon of a Wednesday.
C16_Witness ==
    /\ ~IsNone(result)
    /\ call.selector = "last_n_days"
    /\ IsNone(call.params.n)
    /\ call.now = Instant(9, 43200)
    /\ Val(result).ok
    /\ Val(result).val.start_time.day = 3

\* C17: selector last_n_days with n = 7 returns a 7-day interval whose end
\* is 23:59:59 of the day before now's day.
C17_LastSevenDaysEndYesterday ==
    (/\ ~IsNone(result)
     /\ call.selector = "last_n_days"
     /\ call.params.n = Some(7))
      => LET w == Val(result).val
         IN  /\ Val(result).ok
             /\ w.end_time = Instant(call.now.day - 1, EndOfDay)
             /\ Secs(w.end_time) - Secs(w.start_time) + 1 = 7 * (EndOfDay + 1)

\* The Monday of the calendar week that holds day d.
MondayOf(d) == CHOOSE m \in (d - 6)..d : m % 7 = 0

\* C18: at any instant now selector last_week returns start = Monday
\* 00:00:00 of the week before the one holding now and end = Sunday
\* 23:59:59 of that week, so end - start = 7 days - 1 second and end < now.
C18_LastWeekIsPreviousWeek ==
    (~IsNone(result) /\ call.selector = "last_week")
      => LET w == Val(result).val
         IN  /\ Val(result).ok
             /\ w.start_time = Instant(MondayOf(call.now.day) - 7, 0)
             /\ w.end_time = Instant(MondayOf(call.now.day) - 1, EndOfDay)
             /\ Secs(w.end_time) - Secs(w.start_time) = 7 * (EndOfDay + 1) - 1
             /\ Secs(w.end_time) < Secs(call.now)

\* C18's case: now is the last second of a Sunday, and the window ends a
\* week before it.
C18_Witness ==
    /\ ~IsNone(result)
    /\ call.selector = "last_week"
    /\ call.now = Instant(13, EndOfDay)
    /\ Val(result).ok
    /\ Val(result).val.end_time = Instant(6, EndOfDay)

\* =============================================== the percentile engine alone
\* Longest series handed to the engine.
MaxLen == 21

\* 60 * 1024 * 1024: a rate is kept as the numerator of (bytes * 8) / MbpsDen.
MbpsDen == 62914560
Mbps(bytes) == bytes * 8

\* np.sort(values): ascending.
RECURSIVE sort(_)
sort(values) ==
    IF values = << >> THEN << >>
    ELSE LET i == CHOOSE i \in 1..Len(values) : \A j \in 1..Len(values) : values[i] <= values[j]
         IN  <<values[i]>> \o sort(SubSeq(values, 1, i - 1) \o SubSeq(values, i + 1, Len(values)))

\* np.partition(values, k): element k is the one a full sort puts there.
partition(values, k) == sort(values)

\* int(np.ceil(n * 0.95)) and int(n * 0.05), exact for the lengths used.
ceil95(n) == (95 * n + 99) \div 100
floor05(n) == (5 * n) \div 100

\* Lines 181-190 and 195-204: the value at ascending rank ceil(0.95 n) - 1.
rank95(values) ==
    LET n == Len(values)
        k0 == ceil95(n) - 1
        k == IF k0 < 0 THEN 0 ELSE IF k0 >= n THEN n - 1 ELSE k0
    IN  IF n = 0 THEN 0 ELSE partition(values, k)[k + 1]

\* Fault variant of calculate_95th_percentile: for "both" each direction is
\* ranked on its own and the two ranks are added.
calculate_95th_percentile_split(data, direction) ==
    IF data = << >> THEN 0
    ELSE LET recv_mbps == [i \in 1..Len(data) |-> Mbps(data[i].recv)]
             send_mbps == [i \in 1..Len(data) |-> Mbps(data[i].send)]
         IN  IF direction = "recv" THEN rank95(recv_mbps)
             ELSE IF direction = "send" THEN rank95(send_mbps)
             ELSE rank95(recv_mbps) + rank95(send_mbps)

\* calculate_95th_percentile(data, direction) of the service (lines 151-190).
calculate_95th_percentile(data, direction) ==
    IF data = << >> THEN 0
    ELSE LET recv_mbps == [i \in 1..Len(data) |-> Mbps(data[i].recv)]
             send_mbps == [i \in 1..Len(data) |-> Mbps(data[i].send)]
             values == IF direction = "recv" THEN recv_mbps
                       ELSE IF direction = "send" THEN send_mbps
                       ELSE [i \in 1..Len(data) |-> recv_mbps[i] + send_mbps[i]]
         IN  rank95(values)

\* series.dropna().to_numpy(): the values that are present, in order.
RECURSIVE dropna(_)
dropna(series) ==
    IF series = << >> THEN << >>
    ELSE (IF IsNone(Head(series)) THEN << >> ELSE <<Val(Head(series))>>) \o dropna(Tail(series))

\* calculate_95th_from_series(series) (lines 192-204).
calculate_95th_from_series(series) == rank95(dropna(series))

\* Five-minute samples: recv peaks at interval a and has a lower peak at
\* interval 2, send peaks at interval b; 0 puts a peak nowhere.
Samples(n, a, b) ==
    [i \in 1..n |-> [recv |-> IF i = a THEN 5 ELSE IF i = 2 THEN 3 ELSE 1 + (i % 2),
                     send |-> IF i = b THEN 4 ELSE 1]]
\* A series of rates with a gap at interval b.
Series(n, a, b) ==
    [i \in 1..n |-> IF i = b THEN None
                    ELSE Some(IF i = a THEN 5 ELSE IF i = 2 THEN 3 ELSE 1 + (i % 2))]

PercentileCalls ==
    {[fn |-> "calculate_95th_percentile", data |-> Samples(n, a, b), direction |-> d] :
        n \in {0, 1, 2, 19, 20, MaxLen}, a \in {0, 1, 3, 20}, b \in {0, 1, 3, 4}, d \in {"recv", "send", "both", ""}}

ScriptCalls == {[c EXCEPT !.fn = "script"] : c \in PercentileCalls}

SeriesCalls ==
    {[fn |-> "calculate_95th_from_series", data |-> Series(n, a, b), direction |-> ""] :
        n \in {0, 1, 2, 20, MaxLen}, a \in {0, 1, 3}, b \in {0, 3, 20}}

\* The service's engine is called on the raw samples.
Calc ==
    /\ IsNone(result)
    /\ call.fn = "calculate_95th_percentile"
    /\ result' = Some(calculate_95th_percentile(call.data, call.direction))
    /\ UNCHANGED <<engine, call>>

\* The service's engine is called on a series of rates.
CalcSeries ==
    /\ IsNone(result)
    /\ call.fn = "calculate_95th_from_series"
    /\ result' = Some(calculate_95th_from_series(call.data))
    /\ UNCHANGED <<engine, call>>

\* sorted_values = np.sort(values)[::-1]
descending(values) == [i \in 1..Len(values) |-> sort(values)[Len(values) + 1 - i]]

\* Fault variant of the standalone script: the index is rounded up.
script_calculate_95th_percentile_ceil(data, direction) ==
    IF data = << >> THEN 0
    ELSE LET recv_mbps == [i \in 1..Len(data) |-> Mbps(data[i].recv)]
             send_mbps == [i \in 1..Len(data) |-> Mbps(data[i].send)]
             values == IF direction = "recv" THEN recv_mbps
                       ELSE IF direction = "send" THEN send_mbps
                       ELSE [i \in 1..Len(data) |-> recv_mbps[i] + send_mbps[i]]
             sorted_values == descending(values)
             n == Len(sorted_values)
             i0 == (5 * n + 99) \div 100
             index_95th == IF i0 >= n THEN n - 1 ELSE i0
         IN  IF n = 0 THEN 0 ELSE sorted_values[index_95th + 1]

\* calculate_95th_percentile(data, direction) of the standalone script
\* (src/calculate_95th_percentile.py:145-186).
script_calculate_95th_percentile(data, direction) ==
    IF data = << >> THEN 0
    ELSE LET recv_mbps == [i \in 1..Len(data) |-> Mbps(data[i].recv)]
             send_mbps == [i \in 1..Len(data) |-> Mbps(data[i].send)]
             values == IF direction = "recv" THEN recv_mbps
                       ELSE IF direction = "send" THEN send_mbps
                       ELSE [i \in 1..Len(data) |-> recv_mbps[i] + send_mbps[i]]
             sorted_values == descending(values)
             n == Len(sorted_values)
             i0 == floor05(n)
             index_95th == IF i0 >= n THEN n - 1 ELSE i0
         IN  IF n = 0 THEN 0 ELSE sorted_values[index_95th + 1]

\* The standalone script's function is called on the raw samples.
Script ==
    /\ IsNone(result)
    /\ call.fn = "script"
    /\ result' = Some(script_calculate_95th_percentile(call.data, call.direction))
    /\ UNCHANGED <<engine, call>>

\* ------------------------------------------------- aggregate-all, by value
\* Five-minute intervals in a day (288 in the store), scaled down.
SlotsPerDay == 10
\* df['create_time'].dt.date of interval t; intervals are numbered from 1.
date(t) == (t - 1) \div SlotsPerDay

\* The sum of f over the set S.
RECURSIVE SumOver(_, _)
SumOver(f, S) ==
    IF S = {} THEN 0
    ELSE LET x == CHOOSE x \in S : TRUE IN f[x] + SumOver(f, S \ {x})

\* ORDER BY / sort_values: the members of a set of numbers, ascending.
RECURSIVE ascending(_)
ascending(S) ==
    IF S = {} THEN << >>
    ELSE LET m == CHOOSE m \in S : \A x \in S : m <= x IN <<m>> \o ascending(S \ {m})

\* aggregate_speed_data_for_pairs_db: SUM(recv), SUM(send) GROUP BY
\* create_time in the store; an empty frame when the query is rejected.
aggregate_speed_data_for_pairs_db(e, pairs) ==
    IF pairs = {} \/ ~e.agg_ok THEN << >>
    ELSE LET ts == ascending(UNION {DOMAIN e.db[s] : s \in pairs})
         IN  [i \in 1..Len(ts) |->
                LET at == {s \in pairs : ts[i] \in DOMAIN e.db[s]}
                IN  [create_time |-> ts[i],
                     recv |-> SumOver([s \in at |-> e.db[s][ts[i]].recv], at),
                     send |-> SumOver([s \in at |-> e.db[s][ts[i]].send], at)]]

\* The members of a set as a list, in the order the entity rows came.
RECURSIVE listed(_)
listed(S) ==
    IF S = {} THEN << >>
    ELSE LET x == CHOOSE x \in S : TRUE IN <<x>> \o listed(S \ {x})

\* The rows of a frame, as a set.
Range(df) == {df[i] : i \in DOMAIN df}

\* pd.concat(frames): the frames' rows one frame after the other.
RECURSIVE concat(_)
concat(frames) ==
    IF frames = << >> THEN << >> ELSE Head(frames) \o concat(Tail(frames))

\* The default of the parameter batch_size.
batch_size == 200

\* pairs[i:i + batch_size] for i in range(0, total, batch_size).
batches(pairs, size) ==
    [b \in 1..((Len(pairs) + size - 1) \div size) |->
        SubSeq(pairs, (b - 1) * size + 1,
               IF b * size < Len(pairs) THEN b * size ELSE Len(pairs))]

\* One batch's query: the stored rows whose key is IN the chunk, ordered by
\* key and create_time.
select_pairs(e, chunk) ==
    LET keys == listed(Range(chunk))
        of(s) == LET ts == ascending(DOMAIN e.db[s])
                 IN  [i \in 1..Len(ts) |->
                        [school |-> s, create_time |-> ts[i], recv |-> e.db[s][ts[i]].recv,
                         send |-> e.db[s][ts[i]].send]]
    IN  concat([k \in 1..Len(keys) |-> of(keys[k])])

\* fetch_speed_data_for_pairs_raw (lines 206-243): the key list is cut into
\* batches, each batch is one query, and the frames are concatenated; a
\* rejected query is logged and skipped.
fetch_speed_data_for_pairs_raw(e, pairs, size) ==
    IF pairs = << >> \/ ~e.raw_ok THEN << >>
    ELSE LET chunks == batches(pairs, size)
         IN  concat([b \in 1..Len(chunks) |-> select_pairs(e, chunks[b])])

\* df_raw.groupby('create_time')[['recv', 'send']].sum().sort_values('create_time')
groupby_create_time_sum(df_raw) ==
    LET ts == ascending({r.create_time : r \in df_raw})
    IN  [i \in 1..Len(ts) |->
           LET g == {r \in df_raw : r.create_time = ts[i]}
           IN  [create_time |-> ts[i],
                recv |-> SumOver([r \in g |-> r.recv], g),
                send |-> SumOver([r \in g |-> r.send], g)]]

\* The column of rates a direction selects from an aggregated frame.
direction_series(df, direction) ==
    [i \in 1..Len(df) |->
        Some(IF direction = "recv" THEN Mbps(df[i].recv)
             ELSE IF direction = "send" THEN Mbps(df[i].send)
             ELSE Mbps(df[i].recv) + Mbps(df[i].send))]

\* The rows of a frame that fall on day d.
on_date(df, d) == SelectSeq(df, LAMBDA r : date(r.create_time) = d)

\* Fault variant of aggregate_all_and_compute: each entity is ranked on its
\* own and the entities' percentiles are added.
aggregate_all_and_compute_per_entity(e, schools, direction, export_daily) ==
    IF schools = {} \/ ~(e.agg_ok \/ e.raw_ok) THEN << >>
    ELSE LET per(s, df) == calculate_95th_from_series(direction_series(df, direction))
             whole == aggregate_speed_data_for_pairs_db([e EXCEPT !.agg_ok = TRUE], schools)
             part(s) == aggregate_speed_data_for_pairs_db([e EXCEPT !.agg_ok = TRUE], {s})
         IN  IF whole = << >> THEN << >>
             ELSE IF export_daily
             THEN LET days == ascending({date(whole[i].create_time) : i \in 1..Len(whole)})
                  IN  [i \in 1..Len(days) |->
                         [date |-> Some(days[i]),
                          val |-> SumOver([s \in schools |-> per(s, on_date(part(s), days[i]))], schools),
                          data_points |-> Len(on_date(whole, days[i]))]]
             ELSE <<[date |-> None,
                     val |-> SumOver([s \in schools |-> per(s, part(s))], schools),
                     data_points |-> Len(whole)]>>

\* aggregate_all_and_compute(connection, schools, start, end, direction,
\* export_daily), lines 425-481: the rows it returns, with their values.
aggregate_all_and_compute_rows(e, schools, direction, export_daily) ==
    IF schools = {} THEN << >>
    ELSE LET df_db == aggregate_speed_data_for_pairs_db(e, schools)
             df_raw == Range(fetch_speed_data_for_pairs_raw(e, listed(schools), batch_size))
             df_agg == IF df_db = << >> THEN groupby_create_time_sum(df_raw) ELSE df_db
         IN  IF df_agg = << >> THEN << >>
             ELSE IF export_daily
             THEN LET days == ascending({date(df_agg[i].create_time) : i \in 1..Len(df_agg)})
                  IN  [i \in 1..Len(days) |->
                         LET g == on_date(df_agg, days[i])
                         IN  [date |-> Some(days[i]),
                              val |-> calculate_95th_from_series(direction_series(g, direction)),
                              data_points |-> Len(g)]]
             ELSE <<[date |-> None,
                     val |-> calculate_95th_from_series(direction_series(df_agg, direction)),
                     data_points |-> Len(df_agg)]>>

\* An entity's samples at intervals lo..n: recv peaks at intervals a and a + 1.
EntitySamples(lo, n, a) ==
    [t \in lo..n |-> [recv |-> IF t = a \/ t = a + 1 THEN 5 ELSE 1, send |-> 1 + (t % 2)]]

\* Stores holding entities A and B, and whether they accept the aggregating
\* query and the raw one.
Stores ==
    {[db |-> [s \in {"A", "B"} |-> IF s = "A" THEN EntitySamples(1, n, a) ELSE EntitySamples(lo, n, b)],
      agg_ok |-> x, raw_ok |-> y] :
        n \in {0, 1, MaxLen - 1, MaxLen}, a \in {1, 3}, b \in {1, 3, 12}, lo \in {1, 2},
        x \in BOOLEAN, y \in BOOLEAN}

AggregateCalls ==
    {[fn |-> "aggregate_all_and_compute", e |-> st, schools |-> ss, direction |-> d, export_daily |-> x] :
        st \in Stores, ss \in {{}, {"A"}, {"A", "B"}}, d \in {"recv", "both"}, x \in BOOLEAN}

\* The standalone run with --aggregate-all calls aggregate_all_and_compute.
AggregateAll ==
    /\ IsNone(result)
    /\ call.fn = "aggregate_all_and_compute"
    /\ result' = Some(aggregate_all_and_compute_rows(call.e, call.schools, call.direction,
                                                     call.export_daily))
    /\ UNCHANGED <<engine, call>>

\* ---------------------------------------- compute_and_export, by value
\* A frame's rows: the entity or group a row is for, its day when the row is
\* a daily one, and its value.
Row(school, d, val) == [school |-> school, date |-> d, val |-> val]

\* Series.mean(): kept as the fraction sum / count.
mean(vals, S) == [num |-> SumOver(vals, S), den |-> Cardinality(S)]

\* get_speed_data by value: one entity's rows in time order, none when the
\* query is rejected.
get_speed_data_rows(e, s) ==
    IF ~e.raw_ok THEN << >>
    ELSE LET ts == ascending(DOMAIN e.db[s])
         IN  [i \in 1..Len(ts) |-> [create_time |-> ts[i], recv |-> e.db[s][ts[i]].recv,
                                    send |-> e.db[s][ts[i]].send]]

\* The days on which a frame has rows.
dates(df) == {date(df[i].create_time) : i \in 1..Len(df)}

\* process_schools (lines 308-371) by value: one query per entity, the
\* engine on each entity's records, per day or over the whole period.
process_schools_rows(e, schools, direction, export_daily) ==
    UNION {LET speed_data == get_speed_data_rows(e, s)
           IN  IF speed_data = << >> THEN {}
               ELSE IF export_daily
               THEN {Row(s, Some(d), calculate_95th_percentile(on_date(speed_data, d), direction)) :
                        d \in dates(speed_data)}
               ELSE {Row(s, None, calculate_95th_percentile(speed_data, direction))} : s \in schools}

\* process_schools_batched (lines 245-300) by value: the raw rows fetched at
\* once and grouped by entity, or by entity and day.
process_schools_batched_rows(e, schools, direction, export_daily) ==
    LET df == Range(fetch_speed_data_for_pairs_raw(e, listed(schools), batch_size))
        of(s) == groupby_create_time_sum({r \in df : r.school = s})
    IN  UNION {IF of(s) = << >> THEN {}
               ELSE IF export_daily
               THEN {Row(s, Some(d), calculate_95th_from_series(
                                         direction_series(on_date(of(s), d), direction))) :
                        d \in dates(of(s))}
               ELSE {Row(s, None, calculate_95th_from_series(direction_series(of(s), direction)))} :
               s \in schools}

\* aggregate_speed_data_for_schools (lines 373-388): one query per entity,
\* the rows summed by timestamp.
aggregate_speed_data_for_schools(e, schools) ==
    groupby_create_time_sum(
        UNION {{[school |-> s, create_time |-> get_speed_data_rows(e, s)[i].create_time,
                 recv |-> get_speed_data_rows(e, s)[i].recv,
                 send |-> get_speed_data_rows(e, s)[i].send] :
                    i \in 1..Len(get_speed_data_rows(e, s))} : s \in schools})

\* groupby(group_cols)['daily_95th_percentile_mbps'].mean(): per entity the
\* mean of its daily rows.
mean_by_school(rows_daily) ==
    {Row(s, None, mean([r \in {x \in rows_daily : x.school = s} |-> r.val],
                       {x \in rows_daily : x.school = s})) :
        s \in {r.school : r \in rows_daily}}

\* The rows of aggregate_all_and_compute as a frame of the named group.
group_rows(name, rows) == {Row(name, rows[i].date, rows[i].val) : i \in 1..Len(rows)}

\* compute_and_export lines 148-182: the excluded entities, each on its own.
excluded_frame(p, e, excluded_schools) ==
    IF ~Accepts(KW_process_schools, {"unit_base"}) THEN Raise(UnitBaseError)
    ELSE IF p.settlement_mode = "daily_95_avg"
    THEN LET rows_daily == process_schools_rows(e, excluded_schools, p.direction, TRUE)
         IN  Ok(IF p.export_daily THEN rows_daily ELSE mean_by_school(rows_daily))
    ELSE Ok(process_schools_rows(e, excluded_schools, p.direction, p.export_daily))

\* compute_and_export lines 197-278: the remaining entities as one group.
remaining_frame(p, e, remaining_schools) ==
    LET df_db == aggregate_speed_data_for_pairs_db(e, remaining_schools)
        df_agg == IF df_db = << >> THEN aggregate_speed_data_for_schools(e, remaining_schools)
                  ELSE df_db
        daily(d) == calculate_95th_from_series(direction_series(on_date(df_agg, d), p.direction))
    IN  IF df_agg = << >> THEN Ok({})
        ELSE IF p.settlement_mode = "daily_95_avg"
        THEN IF p.export_daily
             THEN Ok({Row("remaining", Some(d), daily(d)) : d \in dates(df_agg)})
             ELSE Ok({Row("remaining", None,
                          mean([d \in dates(df_agg) |-> daily(d)], dates(df_agg)))})
        ELSE IF ~Accepts(KW_calculate_95th_percentile, {"unit_base"}) THEN Raise(UnitBaseError)
        ELSE IF p.export_daily
        THEN Ok({Row("remaining", Some(d),
                     calculate_95th_percentile(on_date(df_agg, d), p.direction)) :
                    d \in dates(df_agg)})
        ELSE Ok({Row("remaining", None, calculate_95th_percentile(df_agg, p.direction))})

\* compute_and_export lines 282-317: all entities as one group.
aggregate_all_frame(p, e, schools) ==
    IF ~Accepts(KW_aggregate_all_and_compute, {"unit_base"}) THEN Raise(UnitBaseError)
    ELSE IF p.settlement_mode = "daily_95_avg"
    THEN LET rows_daily == group_rows("all", aggregate_all_and_compute_rows(e, schools, p.direction, TRUE))
         IN  Ok(IF p.export_daily THEN rows_daily
                ELSE {Row("all", None,
                          IF rows_daily = {} THEN 0
                          ELSE mean([r \in rows_daily |-> r.val], rows_daily))})
    ELSE Ok(group_rows("all", aggregate_all_and_compute_rows(e, schools, p.direction, p.export_daily)))

\* compute_and_export lines 319-363: every entity on its own.
per_entity_frame(p, e, schools) ==
    IF ~Accepts(KW_process_schools_batched, {"batch_size", "unit_base"}) THEN Raise(UnitBaseError)
    ELSE LET daily == p.settlement_mode = "daily_95_avg" \/ p.export_daily
             batched == process_schools_batched_rows(e, schools, p.direction, daily)
         IN  IF batched = {} /\ ~Accepts(KW_process_schools, {"unit_base"}) THEN Raise(UnitBaseError)
             ELSE LET rows == IF batched = {}
                              THEN process_schools_rows(e, schools, p.direction, daily)
                              ELSE batched
                  IN  Ok(IF p.settlement_mode = "daily_95_avg" /\ ~p.export_daily
                         THEN mean_by_school(rows) ELSE rows)

\* compute_and_export (lines 142-363) by value: the frames it exports for
\* the entities found, or the exception it raises.
compute_and_export_frames(p, e, schools) ==
    IF p.exclude_school # {}
    THEN LET excluded_schools == schools \cap p.exclude_school
             remaining_schools == schools \ p.exclude_school
             x == IF excluded_schools = {} THEN Ok({}) ELSE excluded_frame(p, e, excluded_schools)
             r == IF remaining_schools = {} THEN Ok({}) ELSE remaining_frame(p, e, remaining_schools)
         IN  IF ~x.ok THEN x ELSE IF ~r.ok THEN r ELSE Ok(x.val \cup r.val)
    ELSE IF p.aggregate_all THEN aggregate_all_frame(p, e, schools)
    ELSE per_entity_frame(p, e, schools)

ComputeCalls ==
    {[fn |-> "compute_and_export", e |-> st, schools |-> {"A", "B"},
      params |-> [exclude_school |-> x, aggregate_all |-> a, settlement_mode |-> m,
                  export_daily |-> d, direction |-> "both"]] :
        st \in {s \in Stores : s.raw_ok}, x \in {{}, {"A"}, {"Z"}}, a \in BOOLEAN,
        m \in {"", "daily_95_avg"}, d \in BOOLEAN}

\* A job's work computes its frames.
Compute ==
    /\ IsNone(result)
    /\ call.fn = "compute_and_export"
    /\ result' = Some(compute_and_export_frames(call.params, call.e, call.schools))
    /\ UNCHANGED <<engine, call>>

\* Longest key list and largest batch size given to the batched fetch.
MaxPairs == 3
MaxBatch == 3

\* Key lists: the keys of the selected entity rows, row by row; two rows may
\* carry the same key.
PairLists == UNION {[1..n -> {"A", "B"}] : n \in 0..MaxPairs}

FetchCalls ==
    {[fn |-> "fetch_speed_data_for_pairs_raw", e |-> st, pairs |-> ps, batch_size |-> n] :
        st \in {s \in Stores : s.agg_ok}, ps \in PairLists, n \in 1..MaxBatch}

\* process_schools_batched fetches the raw rows of its key list.
Fetch ==
    /\ IsNone(result)
    /\ call.fn = "fetch_speed_data_for_pairs_raw"
    /\ result' = Some(fetch_speed_data_for_pairs_raw(call.e, call.pairs, call.batch_size))
    /\ UNCHANGED <<engine, call>>

InitPercentile ==
    /\ Idle
    /\ \/ call \in PercentileCalls
       \/ call \in SeriesCalls
       \/ call \in ScriptCalls
       \/ call \in AggregateCalls
       \/ call \in ComputeCalls
       \/ call \in FetchCalls
    /\ result = None

NextPercentile ==
    \/ Calc
    \/ CalcSeries
    \/ Script
    \/ AggregateAll
    \/ Compute
    \/ Fetch

SpecPercentile == InitPercentile /\ [][NextPercentile]_vars

\* The rates a call ranks: per interval the receive rate, the send rate, or
\* for any other direction their sum; a series' present rates.
Ranked(c) ==
    IF c.fn = "calculate_95th_from_series"
    THEN dropna(c.data)
    ELSE [i \in 1..Len(c.data) |->
            IF c.direction = "recv" THEN Mbps(c.data[i].recv)
            ELSE IF c.direction = "send" THEN Mbps(c.data[i].send)
            ELSE Mbps(c.data[i].recv + c.data[i].send)]

\* v stands at ascending rank k (from 0) of values.
AtRank(v, values, k) ==
    /\ \E i \in 1..Len(values) : values[i] = v
    /\ Cardinality({i \in 1..Len(values) : values[i] < v}) <= k
    /\ Cardinality({i \in 1..Len(values) : values[i] <= v}) > k

\* ceil(0.95 n) - 1 clamped to [0, n - 1], as least k with 100 (k + 1) >= 95 n.
Rank95Of(n) ==
    LET k == CHOOSE k \in 0..n : 100 * (k + 1) >= 95 * n /\ (k = 0 \/ 100 * k < 95 * n)
    IN  IF k > n - 1 THEN n - 1 ELSE k

\* C12: for a series of n rates the engine returns the element at ascending
\* rank ceil(0.95 n) - 1 clamped to [0, n - 1]; 0 for n = 0 and the single
\* value for n = 1; for direction "both" the ranked values are the
\* per-interval sums send + recv.
C12_EngineReturnsRank95 ==
    (~IsNone(result) /\ call.fn \in {"calculate_95th_percentile", "calculate_95th_from_series"})
      => LET values == Ranked(call)
             n == Len(values)
         IN  /\ n = 0 => Val(result) = 0
             /\ n = 1 => Val(result) = values[1]
             /\ n >= 1 => AtRank(Val(result), values, Rank95Of(n))

\* C12's case: direction "both" over 20 intervals, where the value returned
\* is below the maximum and differs from the sum of the two directions'
\* own percentiles.
C12_Witness ==
    /\ ~IsNone(result)
    /\ call.fn = "calculate_95th_percentile"
    /\ call.direction = "both"
    /\ Len(call.data) = 20
    /\ \E i \in 1..20 : Mbps(call.data[i].recv + call.data[i].send) > Val(result)
    /\ Val(result) # calculate_95th_percentile(call.data, "recv")
                       + calculate_95th_percentile(call.data, "send")

\* v is the largest of values once the m largest are discarded.
LargestAfterDiscarding(v, values, m) ==
    /\ \E i \in 1..Len(values) : values[i] = v
    /\ Cardinality({i \in 1..Len(values) : values[i] > v}) <= m
    /\ Cardinality({i \in 1..Len(values) : values[i] >= v}) > m

\* C13: on n >= 1 values the element at ascending rank ceil(0.95 n) - 1 is
\* the largest value left after discarding the floor(0.05 n) largest, so
\* the standalone script (descending sort, index floor(0.05 n)) returns what
\* the service's engine returns on the same input.
C13_ScriptEqualsEngine ==
    (~IsNone(result) /\ call.fn = "script")
      => LET values == Ranked(call)
             n == Len(values)
         IN  /\ Val(result) = calculate_95th_percentile(call.data, call.direction)
             /\ n >= 1 => /\ LargestAfterDiscarding(Val(result), values, (5 * n) \div 100)
                          /\ AtRank(Val(result), values, Rank95Of(n))

\* C13's case: the script ran over 21 intervals and one value was discarded.
C13_Witness ==
    /\ ~IsNone(result)
    /\ call.fn = "script"
    /\ Len(call.data) = MaxLen
    /\ \E i \in 1..Len(call.data) : Ranked(call)[i] > Val(result)

\* The samples of the selected entities summed at each timestamp, in time
\* order; an entity without a sample at a timestamp adds nothing there.
SummedSamples(c) ==
    LET ts == ascending(UNION {DOMAIN c.e.db[s] : s \in c.schools})
        at(s, t, f) == IF t \in DOMAIN c.e.db[s] THEN c.e.db[s][t][f] ELSE 0
    IN  [i \in 1..Len(ts) |->
           [create_time |-> ts[i],
            recv |-> SumOver([s \in c.schools |-> at(s, ts[i], "recv")], c.schools),
            send |-> SumOver([s \in c.schools |-> at(s, ts[i], "send")], c.schools)]]

\* One entity's samples in time order, and its own percentile.
OwnSamples(c, s) ==
    LET ts == ascending(DOMAIN c.e.db[s]) IN [i \in 1..Len(ts) |-> c.e.db[s][ts[i]]]
OwnPercentile(c, s) == calculate_95th_percentile(OwnSamples(c, s), c.direction)

RowUnit(c, r) ==
    IF r.school = "all" THEN c.schools
    ELSE IF r.school = "remaining" THEN c.schools \ c.params.exclude_school
    ELSE {r.school}

\* The percentile over the whole period's intervals of a unit's summed
\* samples, and the mean of its per-day percentiles.
WholePeriod(c, unit) ==
    calculate_95th_percentile(SummedSamples([e |-> c.e, schools |-> unit]), c.params.direction)
DailyMean(c, unit) ==
    LET sums == SummedSamples([e |-> c.e, schools |-> unit])
        days == {date(sums[i].create_time) : i \in 1..Len(sums)}
    IN  [num |-> SumOver([d \in days |-> calculate_95th_percentile(on_date(sums, d),
                                                                   c.params.direction)], days),
         den |-> Cardinality(days)]

\* C15: without daily export, a job over entities with samples outputs one
\* value per entity or group: the mean of the per-day percentiles when the
\* settlement mode is daily_95_avg, and the percentile over the whole
\* period's raw intervals when no settlement mode is given, in every
\* partition mode.
C15_SettlementByMode ==
    (/\ ~IsNone(result)
     /\ call.fn = "compute_and_export"
     /\ ~call.params.export_daily
     /\ \A s \in call.schools : DOMAIN call.e.db[s] # {})
      => /\ Val(result).ok
         /\ Val(result).val # {}
         /\ \A r \in Val(result).val :
               /\ IsNone(r.date)
               /\ r.val = IF call.params.settlement_mode = "daily_95_avg"
                          THEN DailyMean(call, RowUnit(call, r))
                          ELSE WholePeriod(call, RowUnit(call, r))

\* C25: the batched fetch cuts the key list into consecutive batches of at
\* most batch_size keys, every list position in exactly one batch, and when
\* the store accepts the queries its output holds every stored sample of
\* every requested key exactly once, and nothing else.
C25_BatchedFetchExactlyOnce ==
    (call.fn = "fetch_speed_data_for_pairs_raw" /\ ~IsNone(result) /\ call.e.raw_ok)
      => LET chunks == batches(call.pairs, call.batch_size)
             out == Val(result)
         IN  /\ \A b \in 1..Len(chunks) :
                    Len(chunks[b]) >= 1 /\ Len(chunks[b]) <= call.batch_size
             /\ concat(chunks) = call.pairs
             /\ \A s \in Range(call.pairs) : \A t \in DOMAIN call.e.db[s] :
                    Cardinality({i \in 1..Len(out) :
                                    out[i].school = s /\ out[i].create_time = t}) = 1
             /\ \A i \in 1..Len(out) :
                    /\ out[i].school \in Range(call.pairs)
                    /\ out[i].create_time \in DOMAIN call.e.db[out[i].school]

\* The names under which a call's output rows stand.
RowNames(c) == {r.school : r \in Val(result).val}

\* C27: a job over entities that all have samples runs exactly one partition
\* mode. With an exclusion list it is the split, whatever the aggregate-all
\* flag: the selected entities named in the list each get their own rows,
\* the others get the rows of one aggregate, and the two subsets are
\* disjoint and make up the selection. Without a list and with the flag all
\* entities form one aggregate; otherwise every entity gets its own rows.
C27_OnePartitionMode ==
    (/\ ~IsNone(result)
     /\ call.fn = "compute_and_export"
     /\ \A s \in call.schools : DOMAIN call.e.db[s] # {})
      => /\ Val(result).ok
         /\ IF call.params.exclude_school # {}
            THEN LET excluded == {s \in call.schools : s \in call.params.exclude_school}
                     remaining == {s \in call.schools : s \notin call.params.exclude_school}
                 IN  /\ RowNames(call) = excluded \cup (IF remaining = {} THEN {} ELSE {"remaining"})
                     /\ \A r \in Val(result).val :
                            r.school = "remaining" => RowUnit(call, r) = remaining
                     /\ excluded \cap remaining = {}
                     /\ excluded \cup remaining = call.schools
            ELSE IF call.params.aggregate_all
            THEN RowNames(call) = {"all"}
            ELSE RowNames(call) = call.schools

====
